---- MODULE Spec2Model ----
(***************************************************************************)
(* A model of src/bot.py: the per-chat conversation state machine built    *)
(* by main() with python-telegram-bot's ConversationHandler, the relay     *)
(* between the users and the single operator (ADMIN_ID), and /broadcast.   *)
(*                                                                         *)
(* Strings are modelled as sequences of tokens.  Callback data is the      *)
(* sequence of its '_'-separated parts, so "action_demo_rrb_je" is         *)
(* <<"action","demo","rrb","je">> and str.split('_') is the identity on    *)
(* that sequence.  Message text is a sequence of text tokens in which the  *)
(* MarkdownV2 characters the code writes (backslash, backtick, star,       *)
(* parentheses) are tokens of their own.                                   *)
(*                                                                         *)
(* Application.builder() leaves concurrent_updates off, so updates are     *)
(* handled one at a time: every handler is one atomic action.              *)
(***************************************************************************)
EXTENDS Integers, Sequences, FiniteSets, TLC

\* ------------------------------------------------------------------ bounds
\* Non-operator users are 1..MaxUser.
MaxUser == 2

\* ------------------------------------------------------------ configuration
\* The operator's user id (environment variable ADMIN_ID).
ADMIN_ID == 9

Users == 1..MaxUser
AllUsers == Users \cup {ADMIN_ID}
\* "No value": an absent dict key / None.
NoUser == 0
NoKey == << >>

\* Conversation states: map(str, range(4)); NoState is a chat that has no
\* conversation yet.
SELECTING_ACTION == "0"
SELECTING_DEMO_SUBJECT == "1"
FORWARD_TO_ADMIN == "2"
FORWARD_SCREENSHOT == "3"
NoState == "none"
States == {SELECTING_ACTION, SELECTING_DEMO_SUBJECT, FORWARD_TO_ADMIN, FORWARD_SCREENSHOT}

\* ------------------------------------------------------------------ catalog
\* courses.json as json.load returns it: a dict, here the sequence of its
\* (key, course) items in insertion order.  A course without "demo_lectures"
\* has channel_id 0 and no subjects; the subjects dict is the sequence of its
\* items in insertion order.
NoDemo == [channel_id |-> 0, subjects |-> << >>]

DemoBundle ==
  [channel_id |-> 100,
   subjects |-> << [key |-> <<"thermo">>, button_text |-> "Thermodynamics", message_id |-> 11],
                   [key |-> <<"fluids">>, button_text |-> "Fluid Mechanics", message_id |-> 12] >>]

\* A bundle whose subject key is written with an underscore.
DemoBundleSoil ==
  [channel_id |-> 200,
   subjects |-> << [key |-> <<"soil","mech">>, button_text |-> "Soil Mechanics", message_id |-> 21] >>]

CatalogFull ==
  << [key |-> <<"me","je">>,
      course |-> [name |-> "ME JE", price |-> 99, status |-> "available", order |-> 2,
                  demo_lectures |-> NoDemo]],
     [key |-> <<"rrb","je">>,
      course |-> [name |-> "RRB JE", price |-> 199, status |-> "available", order |-> 1,
                  demo_lectures |-> DemoBundle]],
     [key |-> <<"mech">>,
      course |-> [name |-> "Mechanical", price |-> 299, status |-> "available", order |-> 2,
                  demo_lectures |-> DemoBundle]],
     [key |-> <<"civil">>,
      course |-> [name |-> "Civil", price |-> 399, status |-> "coming_soon", order |-> 999,
                  demo_lectures |-> DemoBundleSoil]] >>

CatalogEmpty == << >>

Catalogs == {CatalogFull, CatalogEmpty}

\* ---------------------------------------------------------------- state
VARIABLES
  COURSES_DATA,     \* the loaded catalog (fixed once loaded)
  conversations,    \* ConversationHandler's state per chat
  user_data,        \* context.user_data[u]['selected_course_key'], NoKey if absent
  bot_data,         \* context.bot_data["last_chat_with_<ADMIN_ID>"], NoUser if absent
  users_collection, \* the _id values of the users collection
  admin_chat,       \* a message of the operator's chat the operator may reply to
  user_chat,        \* per user: the kinds of bot messages in the chat they may reply to
  last              \* what the handler of the last update did

vars == <<COURSES_DATA, conversations, user_data, bot_data, users_collection,
          admin_chat, user_chat, last>>

\* ------------------------------------------------------- catalog lookups
\* COURSES_DATA.get(course_key): the course, or NoCourse for None.
NoCourse == [name |-> "", price |-> 0, status |-> "", order |-> 0, demo_lectures |-> NoDemo]

HasKey(catalog, course_key) == \E i \in 1..Len(catalog) : catalog[i].key = course_key

Get(catalog, course_key) ==
  IF HasKey(catalog, course_key)
  THEN catalog[CHOOSE i \in 1..Len(catalog) : catalog[i].key = course_key].course
  ELSE NoCourse

\* course.get("demo_lectures", {}).get("subjects") is truthy
HasSubjects(course) == Len(course.demo_lectures.subjects) > 0

\* sorted(COURSES_DATA.items(), key=order): a stable sort, ties stay in
\* insertion order.  Rank(i) is the position of item i in the result.
Rank(catalog, i) ==
  Cardinality({j \in 1..Len(catalog) :
      \/ catalog[j].course.order < catalog[i].course.order
      \/ catalog[j].course.order = catalog[i].course.order /\ j <= i})

sorted_courses(catalog) ==
  [r \in 1..Len(catalog) |-> catalog[CHOOSE i \in 1..Len(catalog) : Rank(catalog, i) = r]]

\* ------------------------------------------------------------- keyboards
Button(text, data) == [text |-> text, data |-> data]

\* The rows start() and main_menu_from_message() build: one per course.
CatalogRow(item) ==
  Button(<<item.course.name, ToString(item.course.price)>>
           \o (IF item.course.status = "coming_soon" THEN <<"(Coming Soon)">> ELSE << >>),
         item.key)

\* A variant that lists only the courses on sale (no row for a coming_soon
\* course); C1 tells it from CatalogKeyboard.
CatalogKeyboard_OnSaleOnly(catalog) ==
  LET on_sale == SelectSeq(sorted_courses(catalog),
                           LAMBDA item : item.course.status # "coming_soon")
  IN [r \in 1..Len(on_sale) |-> CatalogRow(on_sale[r])]

CatalogKeyboard(catalog) ==
  [r \in 1..Len(catalog) |-> CatalogRow(sorted_courses(catalog)[r])]

NoView == [text |-> "", rows |-> << >>]
View(text, rows) == [text |-> text, rows |-> rows]

\* ------------------------------------------------------------ the record
\* of one handled update: the handler that ran, for whom, on which callback
\* data or command words, the message the update replies to, whether the
\* handler raised, the menu it left on screen, its gateway calls to other
\* chats, the plain notices it sent to the initiating chat, and the counts a
\* broadcast reports.
\*
\* Two fields carry history from event to event.  contact is the user of the
\* most recent relay event: a forward of a text or a screenshot, a follow-up,
\* an operator reply that found its user, or a /reply whose send succeeded.
\* attempted is the same with every /reply that reached its send.
NoEvent ==
  [handler |-> "none", user |-> NoUser, data |-> << >>,
   reply_to |-> [from_bot |-> FALSE, text |-> << >>], raised |-> FALSE, view |-> NoView,
   sends |-> << >>, notices |-> << >>, sent_count |-> 0, failed_count |-> 0,
   contact |-> NoUser, attempted |-> NoUser, upserts |-> << >>]

\* upserts: the users for whom the step called users_collection.update_one
\* with upsert=True.
RelayUser(handler, user, raised, sends, counts_failed_reply, before) ==
  IF handler \in {"forward_to_admin_handler", "forward_screenshot_handler"} THEN user
  ELSE IF handler = "handle_user_reply" /\ ~raised /\ sends # << >> THEN user
  ELSE IF handler = "reply_to_user_handler" /\ sends # << >> THEN sends[1].to
  ELSE IF handler = "reply_by_id_command" /\ sends # << >>
          /\ (counts_failed_reply \/ sends[1].ok) THEN sends[1].to
  ELSE before

Event(handler, user, data, raised, view, sends, notices) ==
  [handler |-> handler, user |-> user, data |-> data, reply_to |-> NoEvent.reply_to,
   raised |-> raised, view |-> view,
   sends |-> sends, notices |-> notices, sent_count |-> 0, failed_count |-> 0,
   contact |-> RelayUser(handler, user, raised, sends, FALSE, last.contact),
   attempted |-> RelayUser(handler, user, raised, sends, TRUE, last.attempted),
   upserts |-> << >>]

\* ------------------------------------------------------------------ text
\* The backtick and the backslash as tokens.
BACKTICK == "backtick"
BACKSLASH == "\\"

\* escape_markdown(): a backslash before each of the characters of
\* escape_chars.
escape_chars ==
  {"_", "*", "[", "]", "(", ")", "~", BACKTICK, ">", "#", "+", "-", "=", "|", "{", "}", ".", "!"}

RECURSIVE escape_markdown(_)
escape_markdown(text) ==
  IF text = << >> THEN << >>
  ELSE (IF Head(text) \in escape_chars THEN <<BACKSLASH, Head(text)>> ELSE <<Head(text)>>)
       \o escape_markdown(Tail(text))

\* What a message sent with parse_mode=MARKDOWN_V2 reads as afterwards
\* (Message.text / Message.caption of the delivered message): the gateway
\* parses the markup, so an escaped character stands for itself, and the
\* unescaped backtick and star delimiters become entities and leave the text.
RECURSIVE MarkdownV2(_)
MarkdownV2(text) ==
  IF text = << >> THEN << >>
  ELSE IF Head(text) = BACKSLASH /\ Len(text) >= 2
       THEN <<text[2]>> \o MarkdownV2(Tail(Tail(text)))
       ELSE IF Head(text) \in {BACKTICK, "*"}
            THEN MarkdownV2(Tail(text))
            ELSE <<Head(text)>> \o MarkdownV2(Tail(text))

\* A message of a chat: who wrote it and its text or caption (NoText for a
\* message that has neither, such as a copied video).
NoText == <<"<None>">>
Message(from_bot, text) == [from_bot |-> from_bot, text |-> text]
NoMessage == Message(FALSE, << >>)

\* Numbers in text: str(n) and int(token).
IdTokens == {ToString(n) : n \in 0..9}
ParseInt(token) == CHOOSE n \in 0..9 : ToString(n) = token

full_name(u) == <<"Full Name">>

\* A variant of the header that names the sender without the id; C5 tells it
\* from IdHeader.
IdHeader_NameOnly(u) == <<BACKSLASH, "(", "ID: ", BACKTICK, BACKTICK, BACKSLASH, ")">>

\* The header the three relay messages share, as the f-strings write it: an
\* escaped parenthesis, "ID: ", the id between backticks, an escaped parenthesis.
IdHeader(u) == <<BACKSLASH, "(", "ID: ", BACKTICK, ToString(u), BACKTICK, BACKSLASH, ")">>

\* forward_text of forward_to_admin_handler
ForwardText(u, course_name, body) ==
  <<"New message from">> \o escape_markdown(full_name(u)) \o IdHeader(u)
  \o <<"Regarding course: ", "*">> \o escape_markdown(<<course_name>>) \o <<"*", "Message:">>
  \o escape_markdown(body)

\* caption of forward_screenshot_handler
ScreenshotCaption(u, course_name) ==
  <<"New payment screenshot from:">> \o escape_markdown(full_name(u)) \o IdHeader(u)
  \o <<"For course: ", "*">> \o escape_markdown(<<course_name>>)
  \o <<"*", "Reply to this message to send the course link to the user", BACKSLASH, ".">>

\* forward_text of handle_user_reply
FollowUpText(u, body) ==
  <<"Follow", BACKSLASH, "-", "up from">> \o escape_markdown(full_name(u)) \o IdHeader(u)
  \o <<":">> \o escape_markdown(body)

\* reply_text of reply_to_user_handler and reply_by_id_command (sent without
\* a parse mode: the text arrives as written)
ADMIN_REPLIED == "Admin replied:"
\* A variant that sends the heading without the operator's words; C14 tells
\* it from AdminReplyText.
AdminReplyText_HeadingOnly(body) == <<ADMIN_REPLIED>>
AdminReplyText(body) == <<ADMIN_REPLIED>> \o body

\* re.search of the pattern of reply_to_user_handler (an opening parenthesis,
\* "ID: ", a backtick, digits, a backtick, a closing parenthesis) in the text: the
\* positions where it matches, and int(match.group(1)) of the first one
\* (NoUser for no match).
IdMatches(text) ==
  {i \in 1..(Len(text) - 5) :
      /\ text[i] = "("
      /\ text[i + 1] = "ID: "
      /\ text[i + 2] = BACKTICK
      /\ text[i + 3] \in IdTokens
      /\ text[i + 4] = BACKTICK
      /\ text[i + 5] = ")"}

SearchId(text) ==
  IF IdMatches(text) = {} THEN NoUser
  ELSE ParseInt(text[(CHOOSE i \in IdMatches(text) : \A j \in IdMatches(text) : i <= j) + 3])

\* A variant of the test that takes every text for a forward; C13 tells it
\* from LooksLikeForward.
LooksLikeForward_Always(text) == TRUE

\* The three substring tests of reply_to_user_handler: a backslash followed by
\* "(ID: " and a backtick, or "New message from", or "screenshot from".
LooksLikeForward(text) ==
  \/ \E i \in 1..(Len(text) - 3) :
        text[i] = BACKSLASH /\ text[i + 1] = "(" /\ text[i + 2] = "ID: " /\ text[i + 3] = BACKTICK
  \/ \E i \in 1..Len(text) : text[i] \in {"New message from", "New payment screenshot from:"}

\* ------------------------------------------------------ gateway calls
\* A call of context.bot towards a chat: send_message, send_photo or
\* copy_message, with whether the gateway accepted it.  The model lets a
\* call fail where the code handles the failure (a try/except around it);
\* the plain replies and edits the code does not guard are taken to succeed.
Send(op, to, text, ok) ==
  [op |-> op, to |-> to, text |-> text, from_chat_id |-> 0, message_id |-> 0, ok |-> ok]

Copy(to, from_chat_id, message_id, ok) ==
  [op |-> "copy_message", to |-> to, text |-> << >>, from_chat_id |-> from_chat_id,
   message_id |-> message_id, ok |-> ok]

\* Outcomes of a guarded edit_message_text: accepted, refused with "message
\* is not modified" (the message already reads so), or another TelegramError.
EditOutcomes == {"ok", "not_modified", "error"}

\* Outcomes of a guarded send or copy: accepted, a TelegramError, or another
\* exception.
SendOutcomes == {"ok", "TelegramError", "Exception"}

\* error_handler(): an exception that leaves a handler is logged and an
\* alert goes to the operator; a failure of that send is swallowed.
ERROR_ALERT == <<"Bot Error Alert">>
error_handler(ok) == Send("send_message", ADMIN_ID, ERROR_ALERT, ok)

\* The operator's chat.  The model keeps one of the relayed messages (a
\* forward, a screenshot caption, a follow-up) as the one the operator may
\* reply to later: a relay that is delivered replaces the kept message when
\* remember says so.  The bot's other messages to the operator (notices,
\* alerts) carry no identifier and are not told apart.
AdminChatKeeps(delivered, text, remember) ==
  admin_chat' = IF delivered /\ remember THEN Message(TRUE, MarkdownV2(text)) ELSE admin_chat

\* A handler raised: the conversation state stays, error_handler runs.
Raise(handler, u, data) ==
  /\ \E alert_ok \in BOOLEAN :
        last' = Event(handler, u, data, TRUE, NoView, <<error_handler(alert_ok)>>, << >>)
  /\ UNCHANGED <<conversations, admin_chat>>

\* A plain notice or menu of the bot: text without an identifier.
NOTICE == <<"notice">>

\* The plain text users and the operator type.
HELLO == <<"hello">>

\* ------------------------------------------------------- callback data
Last(seq) == seq[Len(seq)]

\* re.match of "^<prefix>_": the data starts with the prefix's parts and at
\* least one more part follows.
StartsWith(data, prefix) ==
  /\ Len(data) > Len(prefix)
  /\ SubSeq(data, 1, Len(prefix)) = prefix

MAIN_MENU == <<"main", "menu">>
ACTION_DEMO == <<"action", "demo">>
ACTION_TALK_ADMIN == <<"action", "talk", "admin">>
ACTION_BUY == <<"action", "buy">>
ACTION_SCREENSHOT == <<"action", "screenshot">>
DEMO == <<"demo">>

\* query.data.split('_')[-1], as a key
LastPart(data) == <<Last(data)>>

\* ---------------------------------------------------------------- start
\* start(): the catalog menu.  As a callback (main_menu, or called by another
\* handler) the menu is edited in place; a failed edit that is not "message
\* is not modified" is replaced by a new message with the same menu.  Either
\* way the chat shows the catalog and the result is SELECTING_ACTION.
StartText(is_callback) ==
  IF is_callback THEN "Please select a course to view details:" ELSE "Welcome"

StartView(catalog, is_callback) == View(StartText(is_callback), CatalogKeyboard(catalog))

\* A variant of the command that is an entry point and no fallback; C26 tells
\* it from StartCommand.
StartCommand_EntryOnly(u) ==
  /\ conversations[u] = NoState
  /\ users_collection' = users_collection \cup {u}
  /\ conversations' = [conversations EXCEPT ![u] = SELECTING_ACTION]
  /\ last' = [Event("start", u, << >>, FALSE, StartView(COURSES_DATA, FALSE), << >>, << >>)
              EXCEPT !.upserts = <<u>>]
  /\ UNCHANGED <<COURSES_DATA, user_data, bot_data, admin_chat, user_chat>>

\* A variant of the command that shows the catalog without the update_one
\* call; C23 tells it from StartCommand.
StartCommand_NoUpsert(u) ==
  /\ conversations' = [conversations EXCEPT ![u] = SELECTING_ACTION]
  /\ last' = Event("start", u, << >>, FALSE, StartView(COURSES_DATA, FALSE), << >>, << >>)
  /\ UNCHANGED <<COURSES_DATA, user_data, bot_data, users_collection, admin_chat, user_chat>>

\* CommandHandler("start", start): the entry point, and the fallback of every
\* state (no state handles a command message).
StartCommand(u) ==
  /\ users_collection' = users_collection \cup {u}
  /\ conversations' = [conversations EXCEPT ![u] = SELECTING_ACTION]
  /\ last' = [Event("start", u, << >>, FALSE, StartView(COURSES_DATA, FALSE), << >>, << >>)
              EXCEPT !.upserts = <<u>>]
  /\ UNCHANGED <<COURSES_DATA, user_data, bot_data, admin_chat, user_chat>>

\* SELECTING_ACTION: CallbackQueryHandler(start, "^main_menu$")
MainMenu(u, data) ==
  /\ conversations[u] = SELECTING_ACTION
  /\ data = MAIN_MENU
  /\ conversations' = [conversations EXCEPT ![u] = SELECTING_ACTION]
  /\ last' = Event("start", u, data, FALSE, StartView(COURSES_DATA, TRUE), << >>, << >>)
  /\ UNCHANGED <<COURSES_DATA, user_data, bot_data, users_collection, admin_chat, user_chat>>

\* ------------------------------------------------- course_details_menu
\* A variant that offers the demo whether or not the course has subjects; C9
\* tells it from DetailButtons.
DetailButtons_AlwaysDemo(course_key, course) ==
  << Button(<<"Watch Demo">>, ACTION_DEMO \o course_key),
     Button(<<"Talk to Admin">>, ACTION_TALK_ADMIN \o course_key),
     Button(<<"Buy Full Course">>, ACTION_BUY \o course_key),
     Button(<<"Back to Courses">>, MAIN_MENU) >>

DetailButtons(course_key, course) ==
  (IF HasSubjects(course)
   THEN <<Button(<<"Watch Demo">>, ACTION_DEMO \o course_key)>> ELSE << >>)
  \o << Button(<<"Talk to Admin">>, ACTION_TALK_ADMIN \o course_key),
        Button(<<"Buy Full Course">>, ACTION_BUY \o course_key),
        Button(<<"Back to Courses">>, MAIN_MENU) >>

DetailView(course_key, course) == View("Course Details", DetailButtons(course_key, course))

\* A variant of the else branch that stores the key before it looks the
\* course up, as the other menus do; C2 tells it from CourseMissing.
CourseMissing_StoresKey(u, data) ==
  /\ last' = Event("course_details_menu", u, data, FALSE,
                   StartView(COURSES_DATA, TRUE), << >>, <<"course missing">>)
  /\ conversations' = [conversations EXCEPT ![u] = SELECTING_ACTION]
  /\ user_data' = [user_data EXCEPT ![u] = data]
  /\ UNCHANGED admin_chat

\* The else branch of course_details_menu: "Sorry, this course seems to be
\* missing", then start(update, context) as a callback.
CourseMissing(u, data) ==
  /\ last' = Event("course_details_menu", u, data, FALSE,
                   StartView(COURSES_DATA, TRUE), << >>, <<"course missing">>)
  /\ conversations' = [conversations EXCEPT ![u] = SELECTING_ACTION]
  /\ UNCHANGED <<user_data, admin_chat>>

\* The body of the handler: the selected key, the conversation state, the
\* event and the operator's chat.
course_details_menu(u, data) ==
  LET course_key == data
      course == Get(COURSES_DATA, course_key)
  IN IF HasKey(COURSES_DATA, course_key)
     THEN /\ user_data' = [user_data EXCEPT ![u] = course_key]
          /\ \E edit \in EditOutcomes :
               IF edit = "error"
               THEN Raise("course_details_menu", u, data)
               ELSE /\ last' = Event("course_details_menu", u, data, FALSE,
                                     DetailView(course_key, course), << >>, << >>)
                    /\ conversations' = [conversations EXCEPT ![u] = SELECTING_ACTION]
                    /\ UNCHANGED admin_chat
     ELSE CourseMissing(u, data)

\* SELECTING_ACTION: CallbackQueryHandler(course_details_menu, "^.*$"), the
\* last handler of the state; SELECTING_DEMO_SUBJECT: the same handler with
\* "^(?!demo_).*$", after send_demo_lecture.
CourseDetailsMenu(u, data) ==
  /\ \/ /\ conversations[u] = SELECTING_ACTION
        /\ data # MAIN_MENU
        /\ ~StartsWith(data, ACTION_DEMO)
        /\ ~StartsWith(data, ACTION_TALK_ADMIN)
        /\ ~StartsWith(data, ACTION_BUY)
        /\ ~StartsWith(data, ACTION_SCREENSHOT)
     \/ /\ conversations[u] = SELECTING_DEMO_SUBJECT
        /\ ~StartsWith(data, DEMO)
  /\ course_details_menu(u, data)
  /\ UNCHANGED <<COURSES_DATA, bot_data, users_collection, user_chat>>

\* --------------------------------------------------- demo_subject_menu
BackButton(course_key) == Button(<<"Back">>, course_key)

SubjectRows(course_key, subjects) ==
  [i \in 1..Len(subjects) |->
     Button(<<subjects[i].button_text>>, DEMO \o course_key \o subjects[i].key)]

SubjectKeyboard(course_key, course) ==
  SubjectRows(course_key, course.demo_lectures.subjects) \o <<BackButton(course_key)>>

SubjectView(course_key, course) ==
  View("Please select a subject to watch the demo lecture:", SubjectKeyboard(course_key, course))

NoDemoView(course_key) ==
  View("No demo lectures available for this course.", <<BackButton(course_key)>>)

\* The key the handler takes from "action_demo_{key}".
DemoCourseKey(data) == LastPart(data)

demo_subject_menu(u, data) ==
  LET course_key == DemoCourseKey(data)
      course == Get(COURSES_DATA, course_key)
  IN /\ user_data' = [user_data EXCEPT ![u] = course_key]
     /\ IF HasKey(COURSES_DATA, course_key) /\ HasSubjects(course)
        THEN \E edit \in EditOutcomes :
               IF edit = "error"
               THEN Raise("demo_subject_menu", u, data)
               ELSE /\ last' = Event("demo_subject_menu", u, data, FALSE,
                                     SubjectView(course_key, course), << >>, << >>)
                    /\ conversations' = [conversations EXCEPT ![u] = SELECTING_DEMO_SUBJECT]
                    /\ UNCHANGED admin_chat
        ELSE /\ last' = Event("demo_subject_menu", u, data, FALSE, NoDemoView(course_key),
                              << >>, << >>)
             /\ conversations' = [conversations EXCEPT ![u] = SELECTING_ACTION]
             /\ UNCHANGED admin_chat

\* SELECTING_ACTION: CallbackQueryHandler(demo_subject_menu, "^action_demo_")
DemoSubjectMenu(u, data) ==
  /\ conversations[u] = SELECTING_ACTION
  /\ StartsWith(data, ACTION_DEMO)
  /\ demo_subject_menu(u, data)
  /\ UNCHANGED <<COURSES_DATA, bot_data, users_collection, user_chat>>

\* --------------------------------------------------- send_demo_lecture
\* subjects.get(subject_key): the position of the subject, 0 for None.
SubjectIndex(subjects, subject_key) ==
  IF \E i \in 1..Len(subjects) : subjects[i].key = subject_key
  THEN CHOOSE i \in 1..Len(subjects) : subjects[i].key = subject_key
  ELSE 0

\* The whole of the handler is inside try/except and it always returns
\* SELECTING_DEMO_SUBJECT.  "_, course_key, subject_key = data.split('_')"
\* raises ValueError unless the data has exactly three parts; the selected
\* key is assigned after it.
send_demo_lecture(u, data) ==
  /\ conversations' = [conversations EXCEPT ![u] = SELECTING_DEMO_SUBJECT]
  /\ IF Len(data) # 3
     THEN /\ last' = Event("send_demo_lecture", u, data, FALSE, NoView, << >>,
                           <<"An unexpected error occurred.">>)
          /\ UNCHANGED <<user_data, user_chat>>
     ELSE LET course_key == <<data[2]>>
              subject_key == <<data[3]>>
              course == Get(COURSES_DATA, course_key)
              demo_info == course.demo_lectures
              subject == SubjectIndex(demo_info.subjects, subject_key)
          IN /\ user_data' = [user_data EXCEPT ![u] = course_key]
             /\ IF ~HasKey(COURSES_DATA, course_key)
                THEN /\ last' = Event("send_demo_lecture", u, data, FALSE, NoView, << >>,
                                      <<"Sorry, could not find the course information.">>)
                     /\ UNCHANGED user_chat
                ELSE IF subject = 0 \/ demo_info.channel_id = 0
                THEN /\ last' = Event("send_demo_lecture", u, data, FALSE, NoView, << >>,
                                      <<"Sorry, the lecture information is missing.">>)
                     /\ UNCHANGED user_chat
                ELSE \E copy \in SendOutcomes :
                       /\ last' = Event("send_demo_lecture", u, data, FALSE, NoView,
                                        <<Copy(u, demo_info.channel_id,
                                               demo_info.subjects[subject].message_id,
                                               copy = "ok")>>,
                                        IF copy = "ok" THEN << >>
                                        ELSE IF copy = "TelegramError"
                                        THEN <<"Sorry, there was an error fetching the lecture.">>
                                        ELSE <<"Sorry, an unexpected error occurred.">>)
                       /\ user_chat' = IF copy = "ok"
                                       THEN [user_chat EXCEPT ![u] = @ \cup {"media"}]
                                       ELSE user_chat

\* SELECTING_DEMO_SUBJECT: CallbackQueryHandler(send_demo_lecture, "^demo_")
SendDemoLecture(u, data) ==
  /\ conversations[u] = SELECTING_DEMO_SUBJECT
  /\ StartsWith(data, DEMO)
  /\ send_demo_lecture(u, data)
  /\ UNCHANGED <<COURSES_DATA, bot_data, users_collection, admin_chat>>

\* ----------------------------------------------------- buy_course_menu
BuyView(course_key, course) ==
  View("You are about to purchase",
       << Button(<<"Pay Now", ToString(course.price)>>, << >>),
          Button(<<"Already Paid? Share Screenshot">>, ACTION_SCREENSHOT \o course_key),
          BackButton(course_key) >>)

buy_course_menu(u, data) ==
  LET course_key == LastPart(data)
      course == Get(COURSES_DATA, course_key)
  IN /\ user_data' = [user_data EXCEPT ![u] = course_key]
     /\ IF ~HasKey(COURSES_DATA, course_key)
        THEN \* "Error: Course information is missing", then start(update, context)
             /\ last' = Event("buy_course_menu", u, data, FALSE,
                              StartView(COURSES_DATA, TRUE), << >>, <<"course missing">>)
             /\ conversations' = [conversations EXCEPT ![u] = SELECTING_ACTION]
             /\ UNCHANGED admin_chat
        ELSE \E edit \in EditOutcomes :
               IF edit = "error"
               THEN Raise("buy_course_menu", u, data)
               ELSE /\ last' = Event("buy_course_menu", u, data, FALSE,
                                     BuyView(course_key, course), << >>, << >>)
                    /\ conversations' = [conversations EXCEPT ![u] = SELECTING_ACTION]
                    /\ UNCHANGED admin_chat

\* SELECTING_ACTION: CallbackQueryHandler(buy_course_menu, "^action_buy_")
BuyCourseMenu(u, data) ==
  /\ conversations[u] = SELECTING_ACTION
  /\ StartsWith(data, ACTION_BUY)
  /\ buy_course_menu(u, data)
  /\ UNCHANGED <<COURSES_DATA, bot_data, users_collection, user_chat>>

\* --------------------------- prompt_for_screenshot, prompt_for_admin_message
\* Both store the last part of the data as the selected key, replace the
\* menu by a prompt and return the state that awaits the input.
\* A variant of the prompts that keeps one selected key for all the chats;
\* C24 tells it from prompt.
prompt_SharedSelection(handler, text, state, u, data) ==
  /\ user_data' = [v \in AllUsers |-> LastPart(data)]
  /\ \E edit \in EditOutcomes :
       IF edit = "error"
       THEN Raise(handler, u, data)
       ELSE /\ last' = Event(handler, u, data, FALSE, View(text, << >>), << >>, << >>)
            /\ conversations' = [conversations EXCEPT ![u] = state]
            /\ UNCHANGED admin_chat

prompt(handler, text, state, u, data) ==
  /\ user_data' = [user_data EXCEPT ![u] = LastPart(data)]
  /\ \E edit \in EditOutcomes :
       IF edit = "error"
       THEN Raise(handler, u, data)
       ELSE /\ last' = Event(handler, u, data, FALSE, View(text, << >>), << >>, << >>)
            /\ conversations' = [conversations EXCEPT ![u] = state]
            /\ UNCHANGED admin_chat

prompt_for_screenshot(u, data) ==
  prompt("prompt_for_screenshot", "Please send the screenshot of your payment now.",
         FORWARD_SCREENSHOT, u, data)

prompt_for_admin_message(u, data) ==
  prompt("prompt_for_admin_message", "Please type your message to the admin and send it.",
         FORWARD_TO_ADMIN, u, data)

\* A variant of the screenshot prompt that is registered in every state; C19
\* tells it from PromptForScreenshot.
PromptForScreenshot_InEveryState(u, data) ==
  /\ StartsWith(data, ACTION_SCREENSHOT)
  /\ prompt_for_screenshot(u, data)
  /\ UNCHANGED <<COURSES_DATA, bot_data, users_collection, user_chat>>

\* SELECTING_ACTION: CallbackQueryHandler(prompt_for_screenshot, "^action_screenshot_")
PromptForScreenshot(u, data) ==
  /\ conversations[u] = SELECTING_ACTION
  /\ StartsWith(data, ACTION_SCREENSHOT)
  /\ prompt_for_screenshot(u, data)
  /\ UNCHANGED <<COURSES_DATA, bot_data, users_collection, user_chat>>

\* SELECTING_ACTION: CallbackQueryHandler(prompt_for_admin_message, "^action_talk_admin_")
PromptForAdminMessage(u, data) ==
  /\ conversations[u] = SELECTING_ACTION
  /\ StartsWith(data, ACTION_TALK_ADMIN)
  /\ prompt_for_admin_message(u, data)
  /\ UNCHANGED <<COURSES_DATA, bot_data, users_collection, user_chat>>

\* ------------------------------------------------------- the two forwards
\* COURSES_DATA.get(course_key, {}).get('name', 'Not specified')
NOT_SPECIFIED == "Not specified"
CourseName(course_key) ==
  IF HasKey(COURSES_DATA, course_key) THEN Get(COURSES_DATA, course_key).name
  ELSE NOT_SPECIFIED

\* main_menu_from_message(): the catalog as a new message, SELECTING_ACTION.
MainMenuFromMessage == View("You can select another course:", CatalogKeyboard(COURSES_DATA))

\* forward_to_admin_handler().  FORWARD_TO_ADMIN: MessageHandler(TEXT & ~COMMAND),
\* which takes the text message of any user, the operator included, whether
\* or not it is a reply; replied_to is the message it replies to, NoMessage
\* for none.
forward_to_admin_handler(u, replied_to, body, remember) ==
  /\ conversations[u] = FORWARD_TO_ADMIN
  /\ LET forward_text == ForwardText(u, CourseName(user_data[u]), body)
     IN /\ bot_data' = u
        /\ \E send \in {"ok", "Exception"} :
             /\ last' = [Event("forward_to_admin_handler", u, << >>, FALSE, MainMenuFromMessage,
                               <<Send("send_message", ADMIN_ID, forward_text, send = "ok")>>,
                               IF send = "ok" THEN <<"Your message has been sent to the admin.">>
                               ELSE <<"Sorry, there was an error sending your message.">>)
                         EXCEPT !.reply_to = replied_to]
             /\ AdminChatKeeps(send = "ok", forward_text, remember)
        /\ conversations' = [conversations EXCEPT ![u] = SELECTING_ACTION]
  /\ UNCHANGED <<COURSES_DATA, user_data, users_collection, user_chat>>

\* A text message that replies to nothing.
ForwardToAdmin(u, body, remember) == forward_to_admin_handler(u, NoMessage, body, remember)

\* A text message of the operator that replies to the message original_msg of
\* their chat, while their own chat is in FORWARD_TO_ADMIN: the conversation
\* handler is registered before reply_to_user_handler and takes it.
ForwardOperatorReply(original_msg, body) ==
  forward_to_admin_handler(ADMIN_ID, original_msg, body, FALSE)

\* forward_screenshot_handler().  FORWARD_SCREENSHOT: MessageHandler(PHOTO), so
\* the update always holds a photo.
ForwardScreenshot(u, remember) ==
  /\ conversations[u] = FORWARD_SCREENSHOT
  /\ LET caption == ScreenshotCaption(u, CourseName(user_data[u]))
     IN /\ bot_data' = u
        /\ \E send \in {"ok", "Exception"} :
             /\ last' = Event("forward_screenshot_handler", u, << >>, FALSE, MainMenuFromMessage,
                              <<Send("send_photo", ADMIN_ID, caption, send = "ok")>>,
                              IF send = "ok" THEN <<"Screenshot received!">>
                              ELSE <<"Sorry, there was an error sending your screenshot.">>)
             /\ AdminChatKeeps(send = "ok", caption, remember)
        /\ conversations' = [conversations EXCEPT ![u] = SELECTING_ACTION]
  /\ UNCHANGED <<COURSES_DATA, user_data, users_collection, user_chat>>

\* ------------------------------------------------ reply_to_user_handler
\* MessageHandler(REPLY & User(ADMIN_ID)): the operator replies to the message
\* original_msg of their chat with the text body.  The update reaches this
\* handler unless the conversation handler takes it first, which it does for
\* a text message while the operator's own chat is in FORWARD_TO_ADMIN.
CORRELATION_FAILED == "Could not determine which user to reply to."

ResolveUser(original_msg) ==
  LET original_text == IF original_msg.text = NoText THEN << >> ELSE original_msg.text
      found == SearchId(original_text)
  IN IF found # NoUser THEN found
     ELSE IF original_msg.from_bot THEN bot_data
     ELSE NoUser

ReplyToUser(original_msg, body) ==
  /\ conversations[ADMIN_ID] # FORWARD_TO_ADMIN
  /\ LET user_id == ResolveUser(original_msg)
         original_text == IF original_msg.text = NoText THEN << >> ELSE original_msg.text
     IN IF user_id = NoUser
        THEN /\ last' = [Event("reply_to_user_handler", ADMIN_ID, << >>, FALSE, NoView, << >>,
                               IF LooksLikeForward(original_text)
                               THEN <<CORRELATION_FAILED>> ELSE << >>)
                         EXCEPT !.reply_to = original_msg]
             /\ UNCHANGED <<bot_data, user_chat>>
        ELSE /\ bot_data' = user_id
             /\ \E send \in SendOutcomes :
                  /\ last' = [Event("reply_to_user_handler", ADMIN_ID, << >>, FALSE, NoView,
                                    <<Send("send_message", user_id, AdminReplyText(body),
                                           send = "ok")>>,
                                    IF send = "ok" THEN <<"Reply sent successfully.">>
                                    ELSE IF send = "TelegramError"
                                    THEN <<"Failed to send message to user">>
                                    ELSE <<"An unexpected error occurred.">>)
                              EXCEPT !.reply_to = original_msg]
                  /\ user_chat' = IF send = "ok" /\ user_id \in AllUsers
                                  THEN [user_chat EXCEPT ![user_id] = @ \cup {"admin_reply"}]
                                  ELSE user_chat
  /\ UNCHANGED <<COURSES_DATA, conversations, user_data, users_collection, admin_chat>>

\* ---------------------------------------------------- handle_user_reply
\* MessageHandler(REPLY & ~COMMAND & ~User(ADMIN_ID)): a user replies to the
\* message replied_to of their chat, with the text body or, for body = NoText,
\* with a photo.  The conversation handler takes the message first when the
\* state of the chat has a handler for it: a text in FORWARD_TO_ADMIN, a photo
\* in FORWARD_SCREENSHOT.  The test "Admin replied:" not in replied_to.text
\* raises TypeError for a replied-to message without text; for a reply without
\* text, escape_markdown(update.message.text) raises TypeError after the
\* context was stored.
HandleUserReply(u, replied_to, body, remember) ==
  /\ u # ADMIN_ID
  /\ \/ body # NoText /\ conversations[u] # FORWARD_TO_ADMIN
     \/ body = NoText /\ conversations[u] # FORWARD_SCREENSHOT
  /\ IF ~replied_to.from_bot
     THEN /\ last' = [Event("handle_user_reply", u, body, FALSE, NoView, << >>, << >>)
                      EXCEPT !.reply_to = replied_to]
          /\ UNCHANGED <<bot_data, admin_chat>>
     ELSE IF replied_to.text = NoText
     THEN /\ \E alert_ok \in BOOLEAN :
               last' = [Event("handle_user_reply", u, body, TRUE, NoView,
                              <<error_handler(alert_ok)>>, << >>)
                        EXCEPT !.reply_to = replied_to]
          /\ UNCHANGED <<bot_data, admin_chat>>
     ELSE IF ~(\E i \in 1..Len(replied_to.text) : replied_to.text[i] = ADMIN_REPLIED)
     THEN /\ last' = [Event("handle_user_reply", u, body, FALSE, NoView, << >>, << >>)
                      EXCEPT !.reply_to = replied_to]
          /\ UNCHANGED <<bot_data, admin_chat>>
     ELSE IF body = NoText
     THEN /\ bot_data' = u
          /\ \E alert_ok \in BOOLEAN :
               last' = [Event("handle_user_reply", u, body, TRUE, NoView,
                              <<error_handler(alert_ok)>>, << >>)
                        EXCEPT !.reply_to = replied_to, !.contact = u, !.attempted = u]
          /\ UNCHANGED admin_chat
     ELSE LET forward_text == FollowUpText(u, body)
          IN /\ bot_data' = u
             /\ \E send \in {"ok", "Exception"} :
                  /\ last' = [Event("handle_user_reply", u, body, FALSE, NoView,
                                    <<Send("send_message", ADMIN_ID, forward_text, send = "ok")>>,
                                    IF send = "ok" THEN <<"Your reply has been sent.">>
                                    ELSE <<"Sorry, there was an error sending your reply.">>)
                              EXCEPT !.reply_to = replied_to]
                  /\ AdminChatKeeps(send = "ok", forward_text, remember)
  /\ UNCHANGED <<COURSES_DATA, conversations, user_data, users_collection, user_chat>>

\* The messages of a user's chat a reply can point at: the user's own, a menu
\* or notice of the bot, an operator reply the bot delivered, a demo the bot
\* copied (a video: neither text nor, here, a caption).
UserChatMessages(u) ==
  {Message(FALSE, <<"hello">>)}
  \cup (IF conversations[u] # NoState THEN {Message(TRUE, NOTICE)} ELSE {})
  \cup (IF "admin_reply" \in user_chat[u] THEN {Message(TRUE, AdminReplyText(<<"hello">>))} ELSE {})
  \cup (IF "media" \in user_chat[u] THEN {Message(TRUE, NoText)} ELSE {})

\* -------------------------------------------------- reply_by_id_command
\* CommandHandler("reply", filters=User(ADMIN_ID)).  args is context.args: the
\* words after the command.  int(args[0]) raises IndexError without words and
\* ValueError for a word that is no number; an empty message raises ValueError.
USAGE_REPLY == "Usage: /reply <user_id> <message>"

\* A variant that stores the context before the send, as the reply handler
\* does; C7 tells it from ReplyById.
ReplyById_ContextFirst(args) ==
  /\ IF Len(args) = 0 \/ Head(args) \notin IdTokens \/ Len(args) = 1
     THEN /\ last' = Event("reply_by_id_command", ADMIN_ID, args, FALSE, NoView, << >>,
                           <<USAGE_REPLY>>)
          /\ UNCHANGED <<bot_data, user_chat>>
     ELSE LET user_id == ParseInt(Head(args))
              message == Tail(args)
          IN \E send \in SendOutcomes :
               /\ last' = Event("reply_by_id_command", ADMIN_ID, args, FALSE, NoView,
                                <<Send("send_message", user_id, AdminReplyText(message),
                                       send = "ok")>>,
                                IF send = "ok" THEN <<"Message sent to user ID">>
                                ELSE IF send = "TelegramError" THEN <<"Failed to send.">>
                                ELSE <<"An unexpected error occurred.">>)
               /\ bot_data' = user_id
               /\ user_chat' = IF send = "ok" /\ user_id \in AllUsers
                               THEN [user_chat EXCEPT ![user_id] = @ \cup {"admin_reply"}]
                               ELSE user_chat
  /\ UNCHANGED <<COURSES_DATA, conversations, user_data, users_collection, admin_chat>>

ReplyById(args) ==
  /\ IF Len(args) = 0 \/ Head(args) \notin IdTokens \/ Len(args) = 1
     THEN /\ last' = Event("reply_by_id_command", ADMIN_ID, args, FALSE, NoView, << >>,
                           <<USAGE_REPLY>>)
          /\ UNCHANGED <<bot_data, user_chat>>
     ELSE LET user_id == ParseInt(Head(args))
              message == Tail(args)
          IN \E send \in SendOutcomes :
               /\ last' = Event("reply_by_id_command", ADMIN_ID, args, FALSE, NoView,
                                <<Send("send_message", user_id, AdminReplyText(message),
                                       send = "ok")>>,
                                IF send = "ok" THEN <<"Message sent to user ID">>
                                ELSE IF send = "TelegramError" THEN <<"Failed to send.">>
                                ELSE <<"An unexpected error occurred.">>)
               /\ bot_data' = IF send = "ok" THEN user_id ELSE bot_data
               /\ user_chat' = IF send = "ok" /\ user_id \in AllUsers
                               THEN [user_chat EXCEPT ![user_id] = @ \cup {"admin_reply"}]
                               ELSE user_chat
  /\ UNCHANGED <<COURSES_DATA, conversations, user_data, users_collection, admin_chat>>

\* ------------------------------------------------------------ broadcast
\* The ids of users_collection.find(), here in ascending order.
RECURSIVE SetToSeq(_)
SetToSeq(set) ==
  IF set = {} THEN << >>
  ELSE LET least == CHOOSE x \in set : \A y \in set : x <= y
       IN <<least>> \o SetToSeq(set \ {least})

\* A variant of the loop that gives up at the first send that raises; C8
\* tells it from BroadcastLoop.
RECURSIVE BroadcastLoop_StopsAtFailure(_, _, _, _)
BroadcastLoop_StopsAtFailure(user_ids, message, failing, acc) ==
  IF user_ids = << >> THEN acc
  ELSE LET user_id == Head(user_ids)
           ok == user_id \notin failing
           done == [sends |-> Append(acc.sends, Send("send_message", user_id, message, ok)),
                    sent_count |-> IF ok THEN acc.sent_count + 1 ELSE acc.sent_count,
                    failed_count |-> IF ok THEN acc.failed_count ELSE acc.failed_count + 1]
       IN IF ok THEN BroadcastLoop_StopsAtFailure(Tail(user_ids), message, failing, done)
          ELSE done

\* The loop of broadcast(): one send per id; a send that raises counts as
\* failed and the loop goes on.  failing is the set of ids whose send raises.
RECURSIVE BroadcastLoop(_, _, _, _)
BroadcastLoop(user_ids, message, failing, acc) ==
  IF user_ids = << >> THEN acc
  ELSE LET user_id == Head(user_ids)
           ok == user_id \notin failing
       IN BroadcastLoop(Tail(user_ids), message, failing,
            [sends |-> Append(acc.sends, Send("send_message", user_id, message, ok)),
             sent_count |-> IF ok THEN acc.sent_count + 1 ELSE acc.sent_count,
             failed_count |-> IF ok THEN acc.failed_count ELSE acc.failed_count + 1])

broadcast(message, failing) ==
  BroadcastLoop(SetToSeq(users_collection), message, failing,
                [sends |-> << >>, sent_count |-> 0, failed_count |-> 0])

\* CommandHandler("broadcast", filters=User(ADMIN_ID)); message is
\* " ".join(context.args).
Broadcast(message) ==
  /\ IF message = << >>
     THEN last' = Event("broadcast", ADMIN_ID, << >>, FALSE, NoView, << >>,
                        <<"Usage: /broadcast <your message>">>)
     ELSE \E failing \in SUBSET users_collection :
            LET done == broadcast(message, failing)
            IN last' = [Event("broadcast", ADMIN_ID, << >>, FALSE, NoView, done.sends,
                              <<"Starting broadcast", "Broadcast finished.">>)
                        EXCEPT !.sent_count = done.sent_count,
                               !.failed_count = done.failed_count]
  /\ UNCHANGED <<COURSES_DATA, conversations, user_data, bot_data, users_collection,
                 admin_chat, user_chat>>

\* ----------------------------------- help_command, admin_panel, show_stats
\* CommandHandler("help"): any user, any state (no state handles a command).
HelpCommand(u) ==
  /\ last' = Event("help_command", u, << >>, FALSE, NoView, << >>, <<"Bot Help Guide">>)
  /\ UNCHANGED <<COURSES_DATA, conversations, user_data, bot_data, users_collection,
                 admin_chat, user_chat>>

\* CommandHandler("admin" / "stats", filters=User(ADMIN_ID))
AdminPanel ==
  /\ last' = Event("admin_panel", ADMIN_ID, << >>, FALSE, NoView, << >>, <<"Admin Panel Commands">>)
  /\ UNCHANGED <<COURSES_DATA, conversations, user_data, bot_data, users_collection,
                 admin_chat, user_chat>>

ShowStats ==
  /\ last' = Event("show_stats", ADMIN_ID, << >>, FALSE, NoView, << >>,
                   <<"Bot Statistics", ToString(Cardinality(users_collection))>>)
  /\ UNCHANGED <<COURSES_DATA, conversations, user_data, bot_data, users_collection,
                 admin_chat, user_chat>>

\* ------------------------------------------------ updates no handler takes
\* A callback query outside the two menu states, a plain text message (not a
\* reply, not a command) outside FORWARD_TO_ADMIN, a photo outside
\* FORWARD_SCREENSHOT, and an operator command of another sender (the
\* User(ADMIN_ID) filter of its CommandHandler) reach no handler: nothing is
\* sent and nothing changes.
UpdateKinds == {"callback_query", "text", "photo", "operator_command"}

\* A variant in which an operator command of another sender is carried out
\* as a /reply to the sender would be; C15 tells it from Unhandled.
Unhandled_Obeyed(u, kind, data) ==
  /\ \/ /\ kind = "callback_query"
        /\ conversations[u] \notin {SELECTING_ACTION, SELECTING_DEMO_SUBJECT}
     \/ /\ kind = "text"
        /\ data = << >>
        /\ conversations[u] # FORWARD_TO_ADMIN
     \/ /\ kind = "photo"
        /\ data = << >>
        /\ conversations[u] # FORWARD_SCREENSHOT
     \/ /\ kind = "operator_command"
        /\ data = << >>
        /\ u # ADMIN_ID
  /\ last' = Event("unhandled", u, data, FALSE, NoView,
                   IF kind = "operator_command"
                   THEN <<Send("send_message", u, AdminReplyText(HELLO), TRUE)>> ELSE << >>,
                   <<kind>>)
  /\ bot_data' = IF kind = "operator_command" THEN u ELSE bot_data
  /\ UNCHANGED <<COURSES_DATA, conversations, user_data, users_collection,
                 admin_chat, user_chat>>

Unhandled(u, kind, data) ==
  /\ \/ /\ kind = "callback_query"
        /\ conversations[u] \notin {SELECTING_ACTION, SELECTING_DEMO_SUBJECT}
     \/ /\ kind = "text"
        /\ data = << >>
        /\ conversations[u] # FORWARD_TO_ADMIN
     \/ /\ kind = "photo"
        /\ data = << >>
        /\ conversations[u] # FORWARD_SCREENSHOT
     \/ /\ kind = "operator_command"
        /\ data = << >>
        /\ u # ADMIN_ID
  /\ last' = Event("unhandled", u, data, FALSE, NoView, << >>, <<kind>>)
  /\ UNCHANGED <<COURSES_DATA, conversations, user_data, bot_data, users_collection,
                 admin_chat, user_chat>>

\* ------------------------------------------------------------ the inputs
\* The callback data a chat can still hold a button for: every button the
\* bot builds for the keys of the catalog, the keys its handlers derive from
\* them (the Back buttons), and the button of an item that has left the
\* catalog.
StaleKeys == {<<"old">>}

Keys(catalog) == {catalog[i].key : i \in 1..Len(catalog)}

SubjectKeys(catalog) ==
  UNION {{catalog[i].course.demo_lectures.subjects[j].key :
            j \in 1..Len(catalog[i].course.demo_lectures.subjects)} : i \in 1..Len(catalog)}

CallbackData(catalog) ==
  {MAIN_MENU} \cup Keys(catalog) \cup {LastPart(k) : k \in Keys(catalog)} \cup StaleKeys
  \cup {prefix \o k : prefix \in {ACTION_DEMO, ACTION_TALK_ADMIN, ACTION_BUY, ACTION_SCREENSHOT},
                      k \in Keys(catalog)}
  \cup {DEMO \o k \o subject : k \in Keys(catalog), subject \in SubjectKeys(catalog)}

\* A text of the operator that writes out an identifying header, that of
\* user 2.
ID_OF_2 == <<"(", "ID: ", BACKTICK, "2", BACKTICK, ")">>
\* A text of the operator that quotes the opening of a forward, without an id.
QUOTED == <<"New message from", "hello">>

\* The messages of the operator's chat a reply can point at: the relayed
\* message the model keeps, a notice of the bot (the answer to /admin, say),
\* and the operator's own earlier messages.
AdminChatMessages ==
  (IF admin_chat = NoMessage THEN {} ELSE {admin_chat})
  \cup {Message(TRUE, NOTICE), Message(FALSE, HELLO), Message(FALSE, ID_OF_2),
        Message(FALSE, QUOTED)}

\* The words after /reply.
ReplyArgs == {<< >>, <<"abc", "hello">>, <<"1">>} \cup {<<ToString(u), "hello">> : u \in Users}

\* ------------------------------------------------------------------ Init
Init ==
  /\ COURSES_DATA \in Catalogs
  /\ conversations = [u \in AllUsers |-> NoState]
  /\ user_data = [u \in AllUsers |-> NoKey]
  /\ bot_data = NoUser
  /\ users_collection = {}
  /\ admin_chat = NoMessage
  /\ user_chat = [u \in AllUsers |-> {}]
  /\ last = NoEvent

\* ------------------------------------------------------------------ Spec
\* The conversation of one chat, with every button of the catalog and the
\* buttons that went stale.  The operator writes to the chat with /reply and
\* keeps no relayed message for a reply.
EngineChats == {1}

Next ==
  \/ \E u \in EngineChats : StartCommand(u)
  \/ \E u \in EngineChats : HelpCommand(u)
  \/ \E u \in EngineChats : \E data \in CallbackData(COURSES_DATA) : MainMenu(u, data)
  \/ \E u \in EngineChats : \E data \in CallbackData(COURSES_DATA) : DemoSubjectMenu(u, data)
  \/ \E u \in EngineChats : \E data \in CallbackData(COURSES_DATA) : PromptForAdminMessage(u, data)
  \/ \E u \in EngineChats : \E data \in CallbackData(COURSES_DATA) : BuyCourseMenu(u, data)
  \/ \E u \in EngineChats : \E data \in CallbackData(COURSES_DATA) : PromptForScreenshot(u, data)
  \/ \E u \in EngineChats : \E data \in CallbackData(COURSES_DATA) : CourseDetailsMenu(u, data)
  \/ \E u \in EngineChats : \E data \in CallbackData(COURSES_DATA) : SendDemoLecture(u, data)
  \/ \E u \in EngineChats : \E data \in CallbackData(COURSES_DATA) :
        Unhandled(u, "callback_query", data)
  \/ \E u \in EngineChats : ForwardToAdmin(u, HELLO, FALSE)
  \/ \E u \in EngineChats : ForwardScreenshot(u, FALSE)
  \/ \E u \in EngineChats : \E replied_to \in UserChatMessages(u), body \in {HELLO, NoText} :
        HandleUserReply(u, replied_to, body, FALSE)
  \/ \E u \in EngineChats, kind \in UpdateKinds \ {"callback_query"} : Unhandled(u, kind, << >>)
  \/ \E u \in EngineChats : ReplyById(<<ToString(u), "hello">>)

Spec == Init /\ [][Next]_vars

\* ------------------------------------------------------------- SpecRelay
\* The relay between several users and the operator: the users walk the
\* shortest way to the two prompts (the buttons of one item of the full
\* catalog), the operator replies to what arrives.
RelayData == {ACTION_TALK_ADMIN \o <<"mech">>, ACTION_SCREENSHOT \o <<"mech">>}

InitRelay == Init /\ COURSES_DATA = CatalogFull

NextRelay ==
  \/ \E u \in Users : StartCommand(u)
  \/ \E u \in Users : \E data \in RelayData : PromptForAdminMessage(u, data)
  \/ \E u \in Users : \E data \in RelayData : PromptForScreenshot(u, data)
  \/ \E u \in Users : \E remember \in BOOLEAN : ForwardToAdmin(u, HELLO, remember)
  \/ \E u \in Users : \E remember \in BOOLEAN : ForwardScreenshot(u, remember)
  \/ \E u \in Users : \E replied_to \in UserChatMessages(u), remember \in BOOLEAN :
        HandleUserReply(u, replied_to, HELLO, remember)
  \/ \E original_msg \in AdminChatMessages : ReplyToUser(original_msg, HELLO)
  \/ \E args \in ReplyArgs : ReplyById(args)

SpecRelay == InitRelay /\ [][NextRelay]_vars

\* ----------------------------------------------------------- SpecContext
\* The relay as far as the context is concerned: the updates of SpecRelay
\* that can set the context, but the operator keeps none of the relayed
\* messages for a later reply, and so replies to the bot's notices and to
\* their own messages only; /reply comes with an id and a message, and one
\* chat is the one that sends screenshots.
ScreenshotChats == {1}

NextContext ==
  \/ \E u \in Users : StartCommand(u)
  \/ \E u \in Users : \E data \in RelayData : PromptForAdminMessage(u, data)
  \/ \E u \in ScreenshotChats : \E data \in RelayData : PromptForScreenshot(u, data)
  \/ \E u \in Users : ForwardToAdmin(u, HELLO, FALSE)
  \/ \E u \in ScreenshotChats : ForwardScreenshot(u, FALSE)
  \/ \E u \in Users : \E replied_to \in UserChatMessages(u) :
        HandleUserReply(u, replied_to, HELLO, FALSE)
  \/ \E original_msg \in AdminChatMessages : ReplyToUser(original_msg, HELLO)
  \/ \E u \in Users : ReplyById(<<ToString(u), "hello">>)

SpecContext == InitRelay /\ [][NextContext]_vars

\* --------------------------------------------------------- SpecBroadcast
\* The operator's commands.  Users and the operator enter; the operator
\* broadcasts, writes with /reply, replies to the messages of their chat and
\* uses the other commands; users try the operator's commands and reply to
\* the messages of their own chat.
NextBroadcast ==
  \/ \E u \in AllUsers : StartCommand(u)
  \/ \E u \in AllUsers : HelpCommand(u)
  \/ \E u \in AllUsers : Unhandled(u, "operator_command", << >>)
  \/ \E message \in {<< >>, HELLO} : Broadcast(message)
  \/ AdminPanel
  \/ ShowStats
  \/ \E args \in ReplyArgs : ReplyById(args)
  \/ \E original_msg \in AdminChatMessages : ReplyToUser(original_msg, HELLO)
  \/ \E u \in Users : \E replied_to \in UserChatMessages(u) :
        HandleUserReply(u, replied_to, HELLO, FALSE)

SpecBroadcast == Init /\ [][NextBroadcast]_vars

\* ------------------------------------------------------------- SpecChats
\* The conversations of several chats side by side, each with the buttons of
\* one item, and the operator's /reply to the first of them.
ChatData ==
  {MAIN_MENU, <<"mech">>}
  \cup {prefix \o <<"mech">> : prefix \in {ACTION_DEMO, ACTION_TALK_ADMIN, ACTION_SCREENSHOT}}

NextChats ==
  \/ \E u \in Users : StartCommand(u)
  \/ \E u \in Users : \E data \in ChatData : MainMenu(u, data)
  \/ \E u \in Users : \E data \in ChatData : CourseDetailsMenu(u, data)
  \/ \E u \in Users : \E data \in ChatData : DemoSubjectMenu(u, data)
  \/ \E u \in Users : \E data \in ChatData : PromptForAdminMessage(u, data)
  \/ \E u \in Users : \E data \in ChatData : PromptForScreenshot(u, data)
  \/ \E u \in Users : ForwardToAdmin(u, HELLO, FALSE)
  \/ \E u \in Users : ForwardScreenshot(u, FALSE)
  \/ ReplyById(<<"1", "hello">>)

SpecChats == InitRelay /\ [][NextChats]_vars

\* ---------------------------------------------------------- SpecOperator
\* The operator uses the conversation in their own chat as user 1 does in
\* theirs, and replies to the messages of their chat.
OperatorChats == {1, ADMIN_ID}
OperatorData == {ACTION_TALK_ADMIN \o <<"mech">>}

NextOperator ==
  \/ \E u \in OperatorChats : StartCommand(u)
  \/ \E u \in OperatorChats : \E data \in OperatorData : PromptForAdminMessage(u, data)
  \/ \E u \in OperatorChats : ForwardToAdmin(u, HELLO, TRUE)
  \/ \E original_msg \in AdminChatMessages : ReplyToUser(original_msg, HELLO)
  \/ \E original_msg \in AdminChatMessages : ForwardOperatorReply(original_msg, HELLO)

SpecOperator == InitRelay /\ [][NextOperator]_vars

\* ================================================================ claims
\* What the properties below read off the record of the last update.
RowData(view) == {view.rows[r].data : r \in 1..Len(view.rows)}

\* The view lists the catalog: as many rows as the catalog has items, and
\* for each item exactly one row that selects it.
ShowsCatalog(view) ==
  /\ Len(view.rows) = Len(COURSES_DATA)
  /\ \A i \in 1..Len(COURSES_DATA) :
        Cardinality({r \in 1..Len(view.rows) : view.rows[r].data = COURSES_DATA[i].key}) = 1

Tokens(text) == {text[i] : i \in 1..Len(text)}

\* The subjects of the item k of the catalog, in insertion order.
SubjectsOf(k) == Get(COURSES_DATA, k).demo_lectures.subjects

\* ------------------------------------------------------------------- C1
\* C1: a /start command, the first one of a chat included, leaves the chat in
\* SELECTING_ACTION and shows the catalog: one row per item, whatever the
\* catalog, and no row for the empty one.
C1_StartShowsCatalog ==
  (last.handler = "start" /\ last.data = << >>) =>
     /\ ~last.raised
     /\ conversations[last.user] = SELECTING_ACTION
     /\ ShowsCatalog(last.view)

\* /start was handled with the empty catalog: a menu without rows.
C1_Witness ==
  /\ last.handler = "start"
  /\ last.data = << >>
  /\ COURSES_DATA = CatalogEmpty
  /\ last.view.rows = << >>
  /\ conversations[last.user] = SELECTING_ACTION

\* ------------------------------------------------------------------- C2
\* C2: selecting a key that is not in the catalog, in SELECTING_ACTION or in
\* SELECTING_DEMO_SUBJECT, does not raise, shows the catalog again, leaves the
\* chat in SELECTING_ACTION and leaves the selected key as it was.
C2_UnknownKeyShowsCatalog ==
  [][\A u \in AllUsers :
       (/\ last'.handler = "course_details_menu"
        /\ last'.user = u
        /\ last'.data \notin Keys(COURSES_DATA))
       => /\ conversations[u] \in {SELECTING_ACTION, SELECTING_DEMO_SUBJECT}
          /\ ~last'.raised
          /\ ShowsCatalog(last'.view)
          /\ conversations'[u] = SELECTING_ACTION
          /\ user_data'[u] = user_data[u]]_vars

\* A stale button was tapped while a course of the catalog was selected: the
\* catalog is on screen and the course still is the selected one.
C2_Witness ==
  /\ last.handler = "course_details_menu"
  /\ last.data \in StaleKeys
  /\ COURSES_DATA = CatalogFull
  /\ user_data[last.user] \in Keys(COURSES_DATA)
  /\ conversations[last.user] = SELECTING_ACTION
  /\ ShowsCatalog(last.view)

\* ------------------------------------------------------------------- C3
\* The step: the detail view of the item k is on screen and its demo action
\* is handled without the gateway refusing the edit.
DemoFromDetailView(k) ==
  /\ last.handler = "course_details_menu"
  /\ ~last.raised
  /\ last.data = k
  /\ conversations[last.user] = SELECTING_ACTION
  /\ last'.handler = "demo_subject_menu"
  /\ last'.user = last.user
  /\ last'.data = ACTION_DEMO \o k
  /\ ~last'.raised

\* C3: the demo action of an item, issued from the item's detail view, shows
\* the subject list and moves to SELECTING_DEMO_SUBJECT if and only if the
\* item has subjects; without subjects it shows the empty notice and stays in
\* SELECTING_ACTION.  For every key of the catalog, rrb_je included.
C3_DemoListIffSubjects ==
  [][\A k \in Keys(COURSES_DATA) :
       DemoFromDetailView(k) =>
         IF Len(SubjectsOf(k)) > 0
         THEN /\ conversations'[last'.user] = SELECTING_DEMO_SUBJECT
              /\ last'.view.text = "Please select a subject to watch the demo lecture:"
         ELSE /\ conversations'[last'.user] = SELECTING_ACTION
              /\ last'.view.text = "No demo lectures available for this course."]_vars

\* ------------------------------------------------------------------- C4
\* C4: the demo action of an item with subjects (rrb_je with thermo and
\* fluids) shows one row per subject, in insertion order, and after them one
\* back row, which selects the item again.
C4_SubjectRowsThenBack ==
  [][\A k \in Keys(COURSES_DATA) :
       (DemoFromDetailView(k) /\ Len(SubjectsOf(k)) > 0) =>
          LET rows == last'.view.rows
              n == Len(SubjectsOf(k))
          IN /\ Len(rows) = n + 1
             /\ \A i \in 1..n : rows[i].text = <<SubjectsOf(k)[i].button_text>>
             /\ rows[n + 1].data = k]_vars

\* ------------------------------------------------------------------- C5
\* The updates that are a text message of a user.
TextMessage(event) ==
  \/ event.handler = "forward_to_admin_handler"
  \/ event.handler = "handle_user_reply" /\ event.data # NoText
  \/ event.handler = "unhandled" /\ event.notices = <<"text">>

\* C5: a text message of a user whose chat is in FORWARD_TO_ADMIN is handled
\* by forward_to_admin_handler, which makes exactly one send, to the operator,
\* of a text that holds the sender's id (as written and as delivered), and
\* leaves the chat in SELECTING_ACTION, whether or not the gateway accepts the
\* send.
C5_ForwardOnceWithId ==
  [][\A u \in AllUsers :
       (conversations[u] = FORWARD_TO_ADMIN /\ last'.user = u /\ TextMessage(last'))
       => /\ last'.handler = "forward_to_admin_handler"
          /\ ~last'.raised
          /\ Len(last'.sends) = 1
          /\ last'.sends[1].op = "send_message"
          /\ last'.sends[1].to = ADMIN_ID
          /\ ToString(u) \in Tokens(last'.sends[1].text)
          /\ ToString(u) \in Tokens(MarkdownV2(last'.sends[1].text))
          /\ conversations'[u] = SELECTING_ACTION]_vars

\* A text was forwarded and delivered, and the chat is back at the catalog.
C5_Witness ==
  /\ last.handler = "forward_to_admin_handler"
  /\ Len(last.sends) = 1
  /\ last.sends[1].ok
  /\ last.sends[1].to = ADMIN_ID
  /\ ToString(last.user) \in Tokens(last.sends[1].text)
  /\ conversations[last.user] = SELECTING_ACTION

\* ------------------------------------------------------------------- C6
\* The delivered text shows the header of user u: "(ID: u)".
Embeds(text, u) ==
  \E i \in 1..(Len(text) - 3) :
     /\ text[i] = "("
     /\ text[i + 1] = "ID: "
     /\ text[i + 2] = ToString(u)
     /\ text[i + 3] = ")"

\* C6: an operator reply to a relayed message that shows the id of user u is
\* sent to u and to nobody else, and afterwards the context holds u, whatever
\* forwards of other users came in between.
C6_ReplyReachesEmbeddedUser ==
  \A u \in Users :
    (/\ last.handler = "reply_to_user_handler"
     /\ last.reply_to.from_bot
     /\ Embeds(last.reply_to.text, u))
    => /\ Len(last.sends) = 1
       /\ last.sends[1].to = u
       /\ bot_data = u

\* ------------------------------------------------------------------- C7
\* The step: the operator replies to a message of the bot that shows no id
\* while the context is set.
ReplyToPlainBotMessage ==
  /\ last'.handler = "reply_to_user_handler"
  /\ last'.reply_to.from_bot
  /\ Tokens(last'.reply_to.text) \cap IdTokens = {}
  /\ bot_data # NoUser

\* C7 as stated: the reply goes to the user the context holds, and that is
\* the user of the most recent relay event, a /reply counting as one whenever
\* it reached its send.
C7_ContextIsLastRelayEvent ==
  [][ReplyToPlainBotMessage =>
       /\ Len(last'.sends) = 1
       /\ last'.sends[1].to = bot_data
       /\ bot_data = last.attempted]_vars

\* C7: the reply goes to the user the context holds, and that is the user of
\* the most recent relay event: a forwarded text or screenshot, a follow-up,
\* an operator reply that found its user, or a /reply whose send succeeded.
C7_ContextIsLastRelay ==
  [][ReplyToPlainBotMessage =>
       /\ Len(last'.sends) = 1
       /\ last'.sends[1].to = bot_data
       /\ bot_data = last.contact]_vars

\* The operator replied to a notice of the bot and the reply was delivered to
\* the user of the context, a user who had forwarded a text or a screenshot.
C7_Witness ==
  /\ last.handler = "reply_to_user_handler"
  /\ last.reply_to = Message(TRUE, NOTICE)
  /\ Len(last.sends) = 1
  /\ last.sends[1].ok
  /\ last.sends[1].to = bot_data
  /\ bot_data \in Users
  /\ user_data[bot_data] # NoKey
  /\ conversations[bot_data] = SELECTING_ACTION

\* ------------------------------------------------------------------- C8
\* C8: a broadcast makes exactly one send per user of the collection, the
\* empty collection included, whichever sends fail; a failed send does not
\* keep the later ones from being made; the two counts are the sends that
\* succeeded and those that failed and add up to the number of users.
C8_BroadcastReachesEveryUser ==
  (last.handler = "broadcast" /\ Len(last.notices) = 2) =>
     /\ Len(last.sends) = Cardinality(users_collection)
     /\ \A u \in users_collection :
           Cardinality({i \in 1..Len(last.sends) : last.sends[i].to = u}) = 1
     /\ last.sent_count = Cardinality({i \in 1..Len(last.sends) : last.sends[i].ok})
     /\ last.failed_count = Cardinality({i \in 1..Len(last.sends) : ~last.sends[i].ok})
     /\ last.sent_count + last.failed_count = Cardinality(users_collection)

\* A broadcast whose first send failed and whose second one succeeded.
C8_Witness ==
  /\ last.handler = "broadcast"
  /\ Len(last.sends) >= 2
  /\ ~last.sends[1].ok
  /\ last.sends[2].ok
  /\ last.sent_count + last.failed_count = Cardinality(users_collection)

\* ------------------------------------------------------------------- C9
\* C9: selecting a key of the catalog, when the gateway accepts the edit,
\* stores it as the selected key, leaves the chat in SELECTING_ACTION and
\* shows the detail view: the talk, buy and back buttons, and the demo button
\* exactly when the course has subjects (none for me_je).
C9_DetailView ==
  (/\ last.handler = "course_details_menu"
   /\ ~last.raised
   /\ last.data \in Keys(COURSES_DATA))
  => LET k == last.data
     IN /\ user_data[last.user] = k
        /\ conversations[last.user] = SELECTING_ACTION
        /\ ACTION_TALK_ADMIN \o k \in RowData(last.view)
        /\ ACTION_BUY \o k \in RowData(last.view)
        /\ MAIN_MENU \in RowData(last.view)
        /\ (ACTION_DEMO \o k \in RowData(last.view)) <=> (Len(SubjectsOf(k)) > 0)
        /\ Len(last.view.rows) = (IF Len(SubjectsOf(k)) > 0 THEN 4 ELSE 3)

\* me_je, which has no demo lectures, was selected: three buttons, no demo.
C9_Witness ==
  /\ last.handler = "course_details_menu"
  /\ ~last.raised
  /\ last.data = <<"me", "je">>
  /\ user_data[last.user] = <<"me", "je">>
  /\ Len(last.view.rows) = 3
  /\ ACTION_DEMO \o <<"me", "je">> \notin RowData(last.view)

\* ------------------------------------------------------------------ C10
\* C10: the detail view of a coming_soon item has no demo, talk or buy
\* button.
C10_ComingSoonHasNoActions ==
  (/\ last.handler = "course_details_menu"
   /\ ~last.raised
   /\ last.data \in Keys(COURSES_DATA)
   /\ Get(COURSES_DATA, last.data).status = "coming_soon")
  => \A data \in RowData(last.view) :
        /\ ~StartsWith(data, ACTION_DEMO)
        /\ ~StartsWith(data, ACTION_TALK_ADMIN)
        /\ ~StartsWith(data, ACTION_BUY)

\* ------------------------------------------------------------------ C11
\* The updates of a chat that its conversation state has no handler for: a
\* plain text outside FORWARD_TO_ADMIN, a photo outside FORWARD_SCREENSHOT, a
\* button tap outside the two menu states.
NoTransition(event) ==
  /\ event.handler = "unhandled"
  /\ event.notices \in {<<"text">>, <<"photo">>, <<"callback_query">>}

\* C11: in each of the four conversation states, an update the state has no
\* handler for shows the catalog and leaves the chat in SELECTING_ACTION.
C11_UnmappedInputShowsCatalog ==
  [][\A u \in AllUsers :
       (conversations[u] \in States /\ last'.user = u /\ NoTransition(last'))
       => /\ conversations'[u] = SELECTING_ACTION
          /\ last'.view.text # ""
          /\ ShowsCatalog(last'.view)]_vars

\* ------------------------------------------------------------------ C12
\* The updates that are a message without a photo.
NonPhotoMessage(event) ==
  \/ event.handler = "handle_user_reply" /\ event.data # NoText
  \/ event.handler = "unhandled" /\ event.notices = <<"text">>

REPROMPT == "Please send a photo screenshot."

\* C12: in FORWARD_SCREENSHOT a message without a photo is answered with the
\* request for a photo, sends nothing to the operator, leaves the context and
\* the state; a photo is sent to the operator once, with a caption that holds
\* the sender's id, and the chat moves to SELECTING_ACTION.
C12_ScreenshotOrReprompt ==
  [][\A u \in AllUsers :
       (conversations[u] = FORWARD_SCREENSHOT /\ last'.user = u) =>
          /\ NonPhotoMessage(last') =>
                /\ REPROMPT \in Tokens(last'.notices)
                /\ last'.sends = << >>
                /\ bot_data' = bot_data
                /\ conversations'[u] = FORWARD_SCREENSHOT
          /\ last'.handler = "forward_screenshot_handler" =>
                /\ Len(last'.sends) = 1
                /\ last'.sends[1].op = "send_photo"
                /\ last'.sends[1].to = ADMIN_ID
                /\ ToString(u) \in Tokens(last'.sends[1].text)
                /\ conversations'[u] = SELECTING_ACTION]_vars

\* ------------------------------------------------------------------ C13
\* The step: the operator replies to a message that shows no id and that is
\* not the bot's, or is the bot's while the context is unset.
ReplyWithoutDestination ==
  /\ last'.handler = "reply_to_user_handler"
  /\ Tokens(last'.reply_to.text) \cap IdTokens = {}
  /\ (~last'.reply_to.from_bot \/ bot_data = NoUser)

\* The text reads like a relayed message: it opens like a forward or a
\* screenshot caption, or holds the opening of the escaped id header.
ReadsLikeRelay(text) ==
  \/ Tokens(text) \cap {"New message from", "New payment screenshot from:"} # {}
  \/ \E i \in 1..(Len(text) - 3) :
        <<text[i], text[i + 1], text[i + 2], text[i + 3]>> = <<BACKSLASH, "(", "ID: ", BACKTICK>>

\* C13 as stated: such a reply sends nothing to any user, leaves the context
\* and is answered with the notice that the user could not be determined.
C13_NoDestinationIsReported ==
  [][ReplyWithoutDestination =>
       /\ last'.sends = << >>
       /\ bot_data' = bot_data
       /\ CORRELATION_FAILED \in Tokens(last'.notices)]_vars

\* C13: such a reply sends nothing to any user and leaves the context; it is
\* answered with the notice that the user could not be determined when the
\* replied-to text reads like a relayed message, and with nothing otherwise.
C13_NoDestinationSendsNothing ==
  [][ReplyWithoutDestination =>
       /\ last'.sends = << >>
       /\ bot_data' = bot_data
       /\ last'.notices = (IF ReadsLikeRelay(last'.reply_to.text)
                           THEN <<CORRELATION_FAILED>> ELSE << >>)]_vars

\* The operator replied to a message of their own that quotes a forward
\* without its id: nothing was sent, the notice was given.
C13_Witness ==
  /\ last.handler = "reply_to_user_handler"
  /\ last.reply_to = Message(FALSE, QUOTED)
  /\ last.sends = << >>
  /\ last.notices = <<CORRELATION_FAILED>>

\* ------------------------------------------------------------------ C14
\* The words after /reply are an id and a message.
WellFormedReply(args) == Len(args) >= 2 /\ Head(args) \in IdTokens

\* C14: /reply with an id and a message makes one send, of the heading and
\* the message, to the user of that id, whatever the context holds and
\* whatever the operator's chat shows; when the send succeeds the context
\* holds that id afterwards.
C14_DirectReplyReachesId ==
  [][(last'.handler = "reply_by_id_command" /\ WellFormedReply(last'.data)) =>
       /\ Len(last'.sends) = 1
       /\ ToString(last'.sends[1].to) = Head(last'.data)
       /\ last'.sends[1].text = <<ADMIN_REPLIED>> \o Tail(last'.data)
       /\ last'.sends[1].ok => bot_data' = last'.sends[1].to]_vars

\* /reply 2 hello was delivered and the context holds 2, after user 1 had
\* been the one to forward.
C14_Witness ==
  /\ last.handler = "reply_by_id_command"
  /\ last.data = <<"2", "hello">>
  /\ Len(last.sends) = 1
  /\ last.sends[1].ok
  /\ last.sends[1].to = 2
  /\ bot_data = 2
  /\ user_data[1] # NoKey
  /\ conversations[2] = NoState

\* ------------------------------------------------------------------ C15
\* The handlers behind the operator's commands and the operator's replies.
OperatorHandlers ==
  {"broadcast", "reply_by_id_command", "show_stats", "admin_panel", "reply_to_user_handler"}

\* C15: the operator's handlers run for the operator only.  /broadcast,
\* /reply, /stats or /admin of another sender sends nothing and changes
\* nothing, the context included, and a reply of another sender never sends a
\* message to a user.
C15_OperatorOnly ==
  [][/\ last'.handler \in OperatorHandlers => last'.user = ADMIN_ID
     /\ \A u \in Users :
          (last'.user = u /\ last'.handler = "unhandled"
             /\ last'.notices = <<"operator_command">>)
          => /\ last'.sends = << >>
             /\ bot_data' = bot_data
             /\ UNCHANGED <<conversations, user_data, users_collection, admin_chat, user_chat>>
     /\ \A u \in Users :
          (last'.user = u /\ last'.handler = "handle_user_reply")
          => \A i \in 1..Len(last'.sends) : last'.sends[i].to = ADMIN_ID]_vars

\* A user who had entered, and whom the context holds, tried a command of the
\* operator: nothing was sent.
C15_Witness ==
  /\ last.handler = "unhandled"
  /\ last.notices = <<"operator_command">>
  /\ last.user \in Users
  /\ last.user \in users_collection
  /\ last.sends = << >>
  /\ bot_data \in Users
  /\ bot_data # last.user

GatewayTransitions == {"forward_to_admin_handler", "forward_screenshot_handler", "send_demo_lecture"}

\* C17: when the send or copy of a text forward, a photo forward or a demo
\* delivery fails, the failure is reported to the user who started it and the
\* state of that user's chat is the one it had before the step.
C17_FailedGatewayCallKeepsState ==
  [][(/\ last'.handler \in GatewayTransitions
      /\ last'.sends # << >>
      /\ ~last'.sends[1].ok)
     => /\ last'.notices # << >>
        /\ conversations'[last'.user] = conversations[last'.user]]_vars

\* ------------------------------------------------------------------ C18
\* C18: when a demo request has shown the subject list of an item and left the
\* chat in SELECTING_DEMO_SUBJECT, the same request made again by the same
\* user as the next update, the catalog being what it was, shows the same
\* list and leaves the chat in SELECTING_DEMO_SUBJECT.
C18_RepeatedDemoRequestShowsSameList ==
  [][(/\ last.handler = "demo_subject_menu"
      /\ ~last.raised
      /\ conversations[last.user] = SELECTING_DEMO_SUBJECT
      /\ last'.user = last.user
      /\ last'.data = last.data
      /\ last'.handler # "start"
      /\ ~last'.raised
      /\ COURSES_DATA' = COURSES_DATA)
     => /\ last'.view = last.view
        /\ conversations'[last.user] = SELECTING_DEMO_SUBJECT]_vars

\* ------------------------------------------------------------------ C19
\* The handler and the callback data prefix by which a chat enters a state.
EntryHandler(state) ==
  IF state = SELECTING_DEMO_SUBJECT THEN "demo_subject_menu"
  ELSE IF state = FORWARD_TO_ADMIN THEN "prompt_for_admin_message"
  ELSE "prompt_for_screenshot"

EntryPrefix(state) ==
  IF state = SELECTING_DEMO_SUBJECT THEN ACTION_DEMO
  ELSE IF state = FORWARD_TO_ADMIN THEN ACTION_TALK_ADMIN
  ELSE ACTION_SCREENSHOT

GuardedStates == {SELECTING_DEMO_SUBJECT, FORWARD_TO_ADMIN, FORWARD_SCREENSHOT}

\* C19: a chat that was not in SELECTING_DEMO_SUBJECT, FORWARD_TO_ADMIN or
\* FORWARD_SCREENSHOT gets there only from SELECTING_ACTION, by the user's own
\* tap on the button of that state, and a chat in one of these three states
\* stays or goes to SELECTING_ACTION, never to another of the three.
C19_GuardedStatesEnteredFromSelectingAction ==
  [][\A u \in AllUsers :
       /\ \A state \in GuardedStates :
            (conversations'[u] = state /\ conversations[u] # state)
            => /\ conversations[u] = SELECTING_ACTION
               /\ last'.user = u
               /\ last'.handler = EntryHandler(state)
               /\ StartsWith(last'.data, EntryPrefix(state))
               /\ ~last'.raised
       /\ conversations[u] \in GuardedStates
          => conversations'[u] \in {conversations[u], SELECTING_ACTION}]_vars

\* A chat has just entered FORWARD_SCREENSHOT by the screenshot button.
C19_Witness ==
  /\ last.handler = "prompt_for_screenshot"
  /\ ~last.raised
  /\ conversations[last.user] = FORWARD_SCREENSHOT

\* ------------------------------------------------------------------ C20
\* C20: when the subject list of an item has been shown and the user taps one
\* of its subject rows, the chat being in SELECTING_DEMO_SUBJECT, the message
\* of that subject is copied from the item's channel to the user's own chat,
\* once, and the chat stays in SELECTING_DEMO_SUBJECT; and every update that
\* send_demo_lecture handles, whatever it finds, leaves the chat there.
C20_SubjectSelectionCopiesLecture ==
  [][/\ \A i \in 1..Len(COURSES_DATA) :
          LET k == COURSES_DATA[i].key
              demo_info == COURSES_DATA[i].course.demo_lectures
          IN \A j \in 1..Len(demo_info.subjects) :
               (/\ last.handler = "demo_subject_menu"
                /\ ~last.raised
                /\ conversations[last.user] = SELECTING_DEMO_SUBJECT
                /\ last'.user = last.user
                /\ last'.data = DEMO \o k \o demo_info.subjects[j].key
                /\ last'.data \in RowData(last.view))
               => /\ last'.handler = "send_demo_lecture"
                  /\ Len(last'.sends) = 1
                  /\ last'.sends[1].op = "copy_message"
                  /\ last'.sends[1].to = last.user
                  /\ last'.sends[1].from_chat_id = demo_info.channel_id
                  /\ last'.sends[1].message_id = demo_info.subjects[j].message_id
                  /\ conversations'[last.user] = SELECTING_DEMO_SUBJECT
     /\ last'.handler = "send_demo_lecture"
        => conversations'[last'.user] = SELECTING_DEMO_SUBJECT]_vars

\* ------------------------------------------------------------------ C21
\* The prompt that was shown for the item k, by its talk-to-admin button or by
\* its screenshot button, and the handler that takes the awaited input.
PromptedFor(k, event) ==
  /\ ~event.raised
  /\ \/ event.handler = "prompt_for_admin_message" /\ event.data = ACTION_TALK_ADMIN \o k
     \/ event.handler = "prompt_for_screenshot" /\ event.data = ACTION_SCREENSHOT \o k

Forwards == {"forward_to_admin_handler", "forward_screenshot_handler"}

\* C21: when a user was prompted through the talk-to-admin or the screenshot
\* button of an item of the catalog and then sends the awaited message, the
\* message to the operator holds the name of that item, whatever the item's
\* key; and a message to the operator reads "Not specified" only when the
\* chat had no selected item.
C21_ForwardNamesSelectedItem ==
  [][/\ \A i \in 1..Len(COURSES_DATA) :
          (/\ PromptedFor(COURSES_DATA[i].key, last)
           /\ last'.user = last.user
           /\ last'.handler \in Forwards)
          => COURSES_DATA[i].course.name \in Tokens(last'.sends[1].text)
     /\ (last'.handler \in Forwards /\ NOT_SPECIFIED \in Tokens(last'.sends[1].text))
        => user_data[last'.user] = NoKey]_vars

\* ------------------------------------------------------------------ C22
\* C22: the selected item of a chat changes only in a step of
\* course_details_menu for that chat, to a key of the catalog; no other
\* handler changes it, so it is always none or a key of the catalog.
C22_OnlySelectionSetsSelectedItem ==
  [][\A u \in AllUsers :
       /\ user_data'[u] # user_data[u]
          => /\ last'.handler = "course_details_menu"
             /\ last'.user = u
             /\ HasKey(COURSES_DATA, user_data'[u])
       /\ user_data'[u] = NoKey \/ HasKey(COURSES_DATA, user_data'[u])]_vars

\* ------------------------------------------------------------------ C23
\* The step showed the catalog through start(), by the command or by the
\* main_menu button.
EntryTransition(event) == event.handler = "start" /\ ~event.raised

\* Every chat with a conversation belongs to a user of the registry, which
\* is what broadcast() iterates over.
SessionsAreRegistered ==
  \A u \in AllUsers : conversations[u] # NoState => u \in users_collection

\* C23: every step of start(), by the /start command or by the main_menu
\* button, upserts the acting user, and every user whose chat has a
\* conversation is in the registry.
C23_EveryEntryUpserts ==
  /\ EntryTransition(last) => (last.upserts = <<last.user>> /\ last.user \in users_collection)
  /\ SessionsAreRegistered

\* C23, amended: the /start command upserts the acting user; the main_menu
\* button calls no upsert and leaves the registry, in which the user already
\* is; every user whose chat has a conversation is in the registry.
C23_CommandUpsertsButtonKeeps ==
  /\ (EntryTransition(last) /\ last.data = << >>)
     => (last.upserts = <<last.user>> /\ last.user \in users_collection)
  /\ (EntryTransition(last) /\ last.data = MAIN_MENU)
     => (last.upserts = << >> /\ last.user \in users_collection)
  /\ SessionsAreRegistered

\* The catalog was shown again by the main_menu button.
C23_Witness ==
  /\ EntryTransition(last)
  /\ last.data = MAIN_MENU
  /\ conversations[last.user] = SELECTING_ACTION
  /\ last.user \in users_collection

\* ------------------------------------------------------------------ C24
\* C24: a step for one chat leaves the conversation state and the selected
\* item of every other chat, and the catalog; of the registry it changes at
\* most the entry of the acting user.  What it may change beside its own
\* chat's conversation is the context in bot_data.
C24_OtherChatsUntouched ==
  [][/\ \A b \in AllUsers :
          b # last'.user => /\ conversations'[b] = conversations[b]
                            /\ user_data'[b] = user_data[b]
     /\ users_collection' \subseteq users_collection \cup {last'.user}
     /\ users_collection \subseteq users_collection'
     /\ COURSES_DATA' = COURSES_DATA]_vars

\* User 1 was handled last, and forwarded a text, while the chat of user 2
\* awaits a screenshot for its own item.
C24_Witness ==
  /\ last.handler = "forward_to_admin_handler"
  /\ last.user = 1
  /\ bot_data = 1
  /\ conversations[2] = FORWARD_SCREENSHOT
  /\ user_data[2] = <<"mech">>

\* ------------------------------------------------------------------ C25
\* The step handled a text of the operator that replies to a message of the
\* operator's chat.
OperatorReply(event) ==
  /\ event.user = ADMIN_ID
  /\ event.reply_to # NoMessage
  /\ event.handler \in {"reply_to_user_handler", "forward_to_admin_handler"}

\* C25: a reply of the operator is handled by reply_to_user_handler and by no
\* handler of the conversation, whatever the state of the operator's own
\* chat; it is sent to the user it resolves to, if to anyone, and no chat's
\* conversation state changes.
C25_OperatorReplyBypassesConversation ==
  [][OperatorReply(last')
     => /\ last'.handler = "reply_to_user_handler"
        /\ \A i \in 1..Len(last'.sends) : last'.sends[i].to = ResolveUser(last'.reply_to)
        /\ conversations' = conversations]_vars

\* ------------------------------------------------------------------ C26
\* The awaited input of a state and the handler that takes it.
AwaitedBy(state) ==
  IF state = FORWARD_TO_ADMIN THEN "forward_to_admin_handler" ELSE "forward_screenshot_handler"

\* C26: in every reachable state, the one after a handler raised included, a
\* chat can send /start, and a /start never raises and leaves the chat in
\* SELECTING_ACTION; a chat in FORWARD_TO_ADMIN can send a text and a chat in
\* FORWARD_SCREENSHOT a photo, and the step that takes it leaves the chat in
\* SELECTING_ACTION.
C26_NoStateIsATrap ==
  /\ [](\A u \in EngineChats :
          /\ ENABLED StartCommand(u)
          /\ conversations[u] = FORWARD_TO_ADMIN => ENABLED ForwardToAdmin(u, HELLO, FALSE)
          /\ conversations[u] = FORWARD_SCREENSHOT => ENABLED ForwardScreenshot(u, FALSE))
  /\ [][/\ (last'.handler = "start" /\ last'.data = << >>)
           => (~last'.raised /\ conversations'[last'.user] = SELECTING_ACTION)
        /\ \A u \in EngineChats, state \in {FORWARD_TO_ADMIN, FORWARD_SCREENSHOT} :
             (/\ conversations[u] = state
              /\ last'.user = u
              /\ last'.handler = AwaitedBy(state))
             => (~last'.raised /\ conversations'[u] = SELECTING_ACTION)]_vars

\* A handler has just raised for a chat that awaits a text for the operator.
C26_Witness ==
  /\ last.raised
  /\ last.user \in EngineChats
  /\ conversations[last.user] = FORWARD_TO_ADMIN

\* ------------------------------------------------------------------ C27
\* C27: when a user replies to a message of the bot that is no reply of the
\* operator, a message without text included, and no state of the
\* conversation takes the reply, the reply is ignored: no handler raises,
\* nothing is sent, and the context and the operator's chat stay.
C27_ReplyToOtherBotMessageIgnored ==
  [][(/\ last'.handler = "handle_user_reply"
      /\ last'.user \in Users
      /\ last'.reply_to.from_bot
      /\ ADMIN_REPLIED \notin Tokens(last'.reply_to.text))
     => /\ ~last'.raised
        /\ last'.sends = << >>
        /\ bot_data' = bot_data
        /\ admin_chat' = admin_chat]_vars

====
